---------------------------- MODULE Spec2Model ----------------------------
(***************************************************************************)
(* A model of libgorjun: the GorjunServer session (auth.go, gorjun.go).    *)
(*                                                                         *)
(* Go strings are TLA+ strings; fmt.Sprintf / fmt.Errorf with %s and %v    *)
(* are string concatenation.  The HTTP transport, the local file system    *)
(* and the OpenPGP library are the environment: each call of an operation  *)
(* draws the environment's answers from small sets.                        *)
(***************************************************************************)
EXTENDS Integers, Sequences, FiniteSets, TLC

VARIABLES
    g,      \* the GorjunServer struct (gorjun.go:16-24)
    fs,     \* the key directories of the local file system
    call,   \* the operation that ran last, its arguments and the environment's answers
    ret,    \* what that operation returned: [kind, msg, val]
    reqs,   \* the HTTP requests that operation sent, in order
    trace,  \* the steps that operation ran, in order
    hist,   \* history: the most recent token exchanges
    servers \* further GorjunServer instances, each running its own calls step by step

vars == <<g, fs, call, ret, reqs, trace, hist, servers>>

(***************************************************************************)
(* Bounds of the model.                                                    *)
(***************************************************************************)
\* the longest keyring of the generated key directories
MaxRing == 2
\* the number of calls made on each of two concurrent instances
MaxCalls == 2

(***************************************************************************)
(* Program constants.                                                      *)
(***************************************************************************)
\* auth.go:80: the length of an active token
TokenLen == 64
\* net/http StatusOK, gorjun.go:116 and gorjun.go:147
StatusOK == 200

\* auth.go:64: the framing of the signed message
Header == "-----BEGIN PGP SIGNED MESSAGE-----\nHash: SHA256\n\n"

\* os.Getenv("HOME") at auth.go:28
Home == "/home/user"

(***************************************************************************)
(* Values of the environment.                                              *)
(***************************************************************************)
Tok64A == "0123456789abcdef0123456789abcdef0123456789abcdef0123456789abcdef"
Tok64B == "fedcba9876543210fedcba9876543210fedcba9876543210fedcba9876543210"
Tok63  == "0123456789abcdef0123456789abcdef0123456789abcdef0123456789abcde"
Tok65  == "0123456789abcdef0123456789abcdef0123456789abcdef0123456789abcdef0"
Code32 == "9f86d081884c7d659a2feaa0c55ad015"
Code31 == "9f86d081884c7d659a2feaa0c55ad01"

\* bodies the server may answer the challenge request with
ChallengeBodies == {Code32, Code31, ""}
\* bodies the server may answer the token POST with
TokenBodies == {Tok64A, Tok64B, Tok63, Tok65, "Signature verification failed"}
\* errors of the transport
NetErrors == {"dial tcp: connection refused"}
ReadErrors == {"unexpected EOF"}

\* The answer to one HTTP request: the transport failed, the body could not
\* be read, or a status and a body arrived.
Resp(kind, err, status, body) ==
    [kind |-> kind, err |-> err, status |-> status, body |-> body]

NoResp == Resp("none", "", 0, "")

TextResps(bodies) ==
    {Resp("neterr", e, 0, "") : e \in NetErrors}
        \cup {Resp("readerr", e, StatusOK, "") : e \in ReadErrors}
        \cup {Resp("ok", "", StatusOK, b) : b \in bodies}

(***************************************************************************)
(* Results.  A Go error is nil (kind "ok") or carries a message; a panic   *)
(* of the runtime is kind "panic".                                         *)
(***************************************************************************)
Ok(val) == [kind |-> "ok", msg |-> "", val |-> val]
Errorf(msg) == [kind |-> "error", msg |-> msg, val |-> ""]
Panic(msg) == [kind |-> "panic", msg |-> msg, val |-> ""]

Request(method, url, body) == [method |-> method, url |-> url, body |-> body]

\* The outcome of an operation: the struct after it, what it returned, the
\* requests it sent and the steps it ran.
Out(gs, r, rq, tr) == [g |-> gs, ret |-> r, reqs |-> rq, trace |-> tr]

(***************************************************************************)
(* auth.go:47-59                                                           *)
(***************************************************************************)
ChallengeURL(gs) ==
    "https://" \o gs.Hostname \o "/kurjun/rest/auth/token?user=" \o gs.Username

\* a fetch that drops the error of reading the body
GetAuthTokenCodeReadUnchecked(gs, resp) ==
    LET rq == <<Request("GET", ChallengeURL(gs), <<>>)>>
        tr == <<"GetAuthTokenCode">>
    IN  IF resp.kind = "neterr"
        THEN Out(gs, Errorf("Failed to retrieve unsigned token: " \o resp.err), rq, tr)
        ELSE Out([gs EXCEPT !.TokenCode = resp.body], Ok(""), rq, tr)

\* a fetch that refuses a challenge that is not 32 characters long
GetAuthTokenCodeStrict(gs, resp) ==
    LET rq == <<Request("GET", ChallengeURL(gs), <<>>)>>
        tr == <<"GetAuthTokenCode">>
    IN  IF resp.kind = "neterr"
        THEN Out(gs, Errorf("Failed to retrieve unsigned token: " \o resp.err), rq, tr)
        ELSE IF resp.kind = "readerr"
        THEN Out(gs, Errorf("Failed to read body from " \o gs.Hostname \o ": " \o resp.err),
                 rq, tr)
        ELSE IF Len(resp.body) # 32
        THEN Out(gs, Errorf("Failed to retrieve unsigned token: " \o resp.body), rq, tr)
        ELSE Out([gs EXCEPT !.TokenCode = resp.body], Ok(""), rq, tr)

GetAuthTokenCode(gs, resp) ==
    LET rq == <<Request("GET", ChallengeURL(gs), <<>>)>>
        tr == <<"GetAuthTokenCode">>
    IN  IF resp.kind = "neterr"
        THEN Out(gs, Errorf("Failed to retrieve unsigned token: " \o resp.err), rq, tr)
        ELSE IF resp.kind = "readerr"
        THEN Out(gs, Errorf("Failed to read body from " \o gs.Hostname \o ": " \o resp.err),
                 rq, tr)
        ELSE Out([gs EXCEPT !.TokenCode = resp.body], Ok(""), rq, tr)

(***************************************************************************)
(* auth.go:63-86                                                           *)
(***************************************************************************)
TokenURL(gs) == "https://" \o gs.Hostname \o "/kurjun/rest/auth/token"

\* a framing without the newline after the signature
EnvelopeNoNewline(gs, signed) == Header \o gs.TokenCode \o "\n" \o signed

\* auth.go:64
Envelope(gs, signed) == Header \o gs.TokenCode \o "\n" \o signed \o "\n"

\* auth.go:65-69: url.Values.Encode writes the fields sorted by key
TokenForm(gs, signed) ==
    << <<"message", Envelope(gs, signed)>>, <<"user", gs.Username>> >>

\* a length test that takes a longer body for a token
TokenAcceptedAtLeast(body) == Len(body) >= TokenLen

\* auth.go:80
TokenAccepted(body) == Len(body) = TokenLen

\* a rejection that leaves the rejected body in the Token
TokenReplyKeepsBody(gs, body) ==
    IF ~TokenAccepted(body)
    THEN [g |-> [gs EXCEPT !.Token = body],
          ret |-> Errorf("Failed to retrieve active token: " \o body)]
    ELSE [g |-> [gs EXCEPT !.Token = body], ret |-> Ok("")]

\* a rejection that reads the reason after the Token was cleared
TokenReplyReasonLost(gs, body) ==
    IF ~TokenAccepted(body)
    THEN [g |-> [gs EXCEPT !.Token = ""],
          ret |-> Errorf("Failed to retrieve active token: " \o "")]
    ELSE [g |-> [gs EXCEPT !.Token = body], ret |-> Ok("")]

\* auth.go:79-85
TokenReply(gs, body) ==
    IF ~TokenAccepted(body)
    THEN [g |-> [gs EXCEPT !.Token = ""],
          ret |-> Errorf("Failed to retrieve active token: " \o body)]
    ELSE [g |-> [gs EXCEPT !.Token = body], ret |-> Ok("")]

GetActiveToken(gs, signed, resp) ==
    LET rq == <<Request("POST", TokenURL(gs), TokenForm(gs, signed))>>
        tr == <<"GetActiveToken">>
    IN  IF resp.kind = "neterr"
        THEN Out(gs, Errorf("Failed to retrieve active token: " \o resp.err), rq, tr)
        ELSE IF resp.kind = "readerr"
        THEN Out(gs, Errorf("Failed to read body from " \o gs.Hostname \o ": " \o resp.err),
                 rq, tr)
        ELSE Out(TokenReply(gs, resp.body).g, TokenReply(gs, resp.body).ret, rq, tr)

(***************************************************************************)
(* The local file system and the OpenPGP library.                          *)
(*                                                                         *)
(* A file is absent, present but not openable, present with bytes that are *)
(* no keyring, or a keyring: a sequence of entities.  An entity has the    *)
(* e-mail addresses of its identities and its private key: none (a public  *)
(* key only), plain, or locked by a passphrase.                            *)
(***************************************************************************)
Entity(id, emails, priv, pass) ==
    [id |-> id, emails |-> emails, priv |-> priv, pass |-> pass]

\* openpgp.Entity is a pointer: nil when no entity was found
NilEntity == Entity("", {}, "nil", "")

File(state, ring) == [state |-> state, ring |-> ring]
Absent == File("absent", <<>>)
NoPerm == File("noperm", <<>>)
Garbage == File("garbage", <<>>)
Ring(r) == File("ring", r)

\* an ASCII-armored file: the type of its block and the packets of the block
\* body, written as the entities whose key packets they are; a packet of
\* another kind is written NilEntity
Armored(type, packets) == File(type, packets)
PrivateKeyType == "PGP PRIVATE KEY BLOCK"
PublicKeyType == "PGP PUBLIC KEY BLOCK"
IsArmored(f) == f.state \in {PrivateKeyType, PublicKeyType}

FileAt(fsys, path) == IF path \in DOMAIN fsys THEN fsys[path] ELSE Absent

\* os.Stat followed by os.IsNotExist(err), auth.go:107 and auth.go:110
IsNotExist(fsys, path) == FileAt(fsys, path).state = "absent"

\* os.Open, auth.go:113 and auth.go:127
OpenFails(fsys, path) == FileAt(fsys, path).state \in {"absent", "noperm"}

OpenError(fsys, path) ==
    IF FileAt(fsys, path).state = "absent"
    THEN "open " \o path \o ": no such file or directory"
    ELSE "open " \o path \o ": permission denied"

\* openpgp.ReadKeyRing, auth.go:118 and auth.go:132
ReadFails(fsys, path) ==
    FileAt(fsys, path).state = "garbage" \/ IsArmored(FileAt(fsys, path))

ReadKeyRing(fsys, path) == FileAt(fsys, path).ring

\* packet.PrivateKey.Decrypt, auth.go:141: a locked key is unlocked by its
\* own passphrase and by no other; the error is dropped by the caller
Decrypt(e, passphrase) ==
    IF e.priv = "locked" /\ passphrase = e.pass THEN [e EXCEPT !.priv = "plain"] ELSE e

\* the armored detached signature of token by entity e
Signature(e, token) ==
    "-----BEGIN PGP SIGNATURE-----\n\n" \o e.id \o ":" \o token
        \o "\n-----END PGP SIGNATURE-----"

\* openpgp.ArmoredDetachSign, auth.go:144: it refuses an entity without a
\* private key and an entity whose private key is still encrypted
ArmoredDetachSign(e, token) ==
    IF e.priv = "none"
    THEN Errorf("openpgp: invalid argument: signing entity must have a private key")
    ELSE IF e.priv = "locked"
    THEN Errorf("openpgp: invalid argument: signing entity's private key must be decrypted")
    ELSE Ok(Signature(e, token))

(***************************************************************************)
(* auth.go:88-97                                                           *)
(***************************************************************************)
RECURSIVE getKeyFrom(_, _, _)
getKeyFrom(keyring, email, i) ==
    IF i > Len(keyring) THEN NilEntity
    ELSE IF \E ident \in keyring[i].emails : ident = email THEN keyring[i]
    ELSE getKeyFrom(keyring, email, i + 1)

\* a lookup that keeps the last match of the keyring
RECURSIVE getKeyLastFrom(_, _, _)
getKeyLastFrom(keyring, email, i) ==
    IF i < 1 THEN NilEntity
    ELSE IF \E ident \in keyring[i].emails : ident = email THEN keyring[i]
    ELSE getKeyLastFrom(keyring, email, i - 1)

getKeyByEmailLast(keyring, email) == getKeyLastFrom(keyring, email, Len(keyring))

getKeyByEmail(keyring, email) == getKeyFrom(keyring, email, 1)

(***************************************************************************)
(* auth.go:100-149.  The steps are recorded as they run: "open" and        *)
(* "close" of a file handle, "read" of a keyring, "sign".  The deferred    *)
(* Close calls run at the return, last deferred first; Close of the nil    *)
(* handle of a failed Open does nothing.                                   *)
(***************************************************************************)
PubringGpg(gs) == gs.GPGDirectory \o "/pubring.gpg"
PubringKbx(gs) == gs.GPGDirectory \o "/pubring.kbx"
SecringGpg(gs) == gs.GPGDirectory \o "/secring.gpg"

\* auth.go:106-109
PubringPath(gs, fsys) ==
    IF IsNotExist(fsys, PubringGpg(gs)) THEN PubringKbx(gs) ELSE PubringGpg(gs)

\* auth.go:113: the public keyring file that is opened
PubringOpened(gs, fsys) == PubringGpg(gs)

Step(what, path) == what \o " " \o path

\* a signing step with the passphrase test inverted: the key is never unlocked
SignWithNoDecrypt(gs, privateKey, token) ==
    LET signed == ArmoredDetachSign(privateKey, token)
    IN  IF signed.kind = "error"
        THEN Errorf("Failed to sign token: " \o signed.msg)
        ELSE signed

\* auth.go:140-148, with the private keyring file open
SignWith(gs, privateKey, token) ==
    IF gs.Passphrase # "" /\ privateKey.priv = "none"
    THEN Panic("invalid memory address or nil pointer dereference")
    ELSE LET key == IF gs.Passphrase # "" THEN Decrypt(privateKey, gs.Passphrase)
                    ELSE privateKey
             signed == ArmoredDetachSign(key, token)
         IN  IF signed.kind = "error"
             THEN Errorf("Failed to sign token: " \o signed.msg)
             ELSE signed

\* auth.go:127-148, with the public keyring file open
SignPrivate(gs, fsys, token) ==
    LET sec == SecringGpg(gs)
        privateKey == getKeyByEmail(ReadKeyRing(fsys, sec), gs.Email)
    IN  IF OpenFails(fsys, sec)
        THEN [ret |-> Errorf("Failed to open private keyring file: " \o OpenError(fsys, sec)),
              trace |-> <<>>]
        ELSE IF ReadFails(fsys, sec)
        THEN [ret |-> Errorf("Failed to read private keyring: openpgp: invalid data"),
              trace |-> <<Step("open", sec), Step("read", sec), Step("close", sec)>>]
        ELSE IF privateKey = NilEntity
        THEN [ret |-> Errorf("Private key for " \o gs.Email \o " was not found"),
              trace |-> <<Step("open", sec), Step("read", sec), Step("close", sec)>>]
        ELSE [ret |-> SignWith(gs, privateKey, token),
              trace |-> <<Step("open", sec), Step("read", sec), Step("sign", privateKey.id),
                          Step("close", sec)>>]

SignSteps(gs, fsys, token) ==
    LET pub == PubringOpened(gs, fsys)
        publicKey == getKeyByEmail(ReadKeyRing(fsys, pub), gs.Email)
        rest == SignPrivate(gs, fsys, token)
    IN  IF gs.GPGDirectory = ""
        THEN Out(gs, Errorf("GPG Directory was not specified"), <<>>, <<>>)
        ELSE IF IsNotExist(fsys, PubringPath(gs, fsys))
        THEN Out(gs, Errorf("Can't find pubring.gpg nor pubring.kbx"), <<>>, <<>>)
        ELSE IF OpenFails(fsys, pub)
        THEN Out(gs, Errorf("Failed to open public keyring file: " \o OpenError(fsys, pub)),
                 <<>>, <<>>)
        ELSE IF ReadFails(fsys, pub)
        THEN Out(gs, Errorf("Failed to read public keyring: openpgp: invalid data"), <<>>,
                 <<Step("open", pub), Step("read", pub), Step("close", pub)>>)
        ELSE IF publicKey = NilEntity
        THEN Out(gs, Errorf("Public key for " \o gs.Email \o " was not found"), <<>>,
                 <<Step("open", pub), Step("read", pub), Step("close", pub)>>)
        ELSE Out(gs, rest.ret, <<>>,
                 <<Step("open", pub), Step("read", pub)>> \o rest.trace
                     \o <<Step("close", pub)>>)

\* a signing that keeps the token it signed as the session's challenge code
SignTokenStoresCode(gs, fsys, token) ==
    LET o == SignSteps(gs, fsys, token)
    IN  Out([o.g EXCEPT !.TokenCode = token], o.ret, o.reqs, <<"SignToken">> \o o.trace)

SignToken(gs, fsys, token) ==
    LET o == SignSteps(gs, fsys, token)
    IN  Out(o.g, o.ret, o.reqs, <<"SignToken">> \o o.trace)

(***************************************************************************)
(* auth.go:151-178.  The file is opened and read; no path of the function  *)
(* closes it, and the Close at auth.go:154 is called on the nil handle of  *)
(* a failed Open.                                                          *)
(***************************************************************************)
decodePrivateKey(gs, fsys) ==
    LET sec == SecringGpg(gs)
        f == FileAt(fsys, sec)
        tr == <<"decodePrivateKey", Step("open", sec), Step("read", sec)>>
    IN  IF OpenFails(fsys, sec)
        THEN Out(gs, Errorf(OpenError(fsys, sec)), <<>>, <<"decodePrivateKey">>)
        ELSE IF ~IsArmored(f)
        THEN Out(gs, Errorf("Failed to decode GPG Armor: EOF"), <<>>, tr)
        ELSE IF f.state # PrivateKeyType
        THEN Out(gs, Errorf("Invalid private key file"), <<>>, tr)
        ELSE IF f.ring = <<>>
        THEN Out(gs, Errorf("Error reading private key"), <<>>, tr)
        ELSE IF f.ring[1].priv \notin {"plain", "locked"}
        THEN Out(gs, Errorf("Error parsing private key"), <<>>, tr)
        ELSE Out(gs, Ok(f.ring[1].id), <<>>, tr)

(***************************************************************************)
(* auth.go:21-43                                                           *)
(***************************************************************************)
\* auth.go:22-29
SetIdentity(gs, username, email, passphrase, gpgdir) ==
    [gs EXCEPT !.Username = username, !.Email = email, !.Passphrase = passphrase,
               !.GPGDirectory = IF gpgdir # "" THEN gpgdir ELSE Home \o "/.gnupg"]

\* auth.go:38-42, after the challenge was fetched (o1) and signed (o2)
AuthenticateExchange(o1, o2, tokenResp) ==
    LET o3 == GetActiveToken(o1.g, o2.ret.val, tokenResp)
    IN  Out(o3.g, o3.ret, o1.reqs \o o3.reqs, o1.trace \o o2.trace \o o3.trace)

\* a handshake that drops the error of the signing step and goes on
AuthenticateSignUnchecked(o1, fsys, tokenResp) ==
    AuthenticateExchange(o1, SignToken(o1.g, fsys, o1.g.TokenCode), tokenResp)

\* a handshake that signs the user name in place of the fetched challenge
AuthenticateSignOtherText(o1, fsys, tokenResp) ==
    LET o2 == SignToken(o1.g, fsys, o1.g.Username)
    IN  IF o2.ret.kind # "ok"
        THEN Out(o1.g, o2.ret, o1.reqs, o1.trace \o o2.trace)
        ELSE AuthenticateExchange(o1, o2, tokenResp)

\* auth.go:34-42, after the challenge was fetched (o1)
AuthenticateSign(o1, fsys, tokenResp) ==
    LET o2 == SignToken(o1.g, fsys, o1.g.TokenCode)
    IN  IF o2.ret.kind # "ok"
        THEN Out(o1.g, o2.ret, o1.reqs, o1.trace \o o2.trace)
        ELSE AuthenticateExchange(o1, o2, tokenResp)

\* a handshake that drops the error of the challenge fetch and goes on
AuthenticateUserFetchUnchecked(gs, username, email, passphrase, gpgdir, fsys, codeResp, tokenResp) ==
    AuthenticateSign(GetAuthTokenCode(SetIdentity(gs, username, email, passphrase, gpgdir),
                                      codeResp),
                     fsys, tokenResp)

AuthenticateUser(gs, username, email, passphrase, gpgdir, fsys, codeResp, tokenResp) ==
    LET o1 == GetAuthTokenCode(SetIdentity(gs, username, email, passphrase, gpgdir),
                               codeResp)
    IN  IF o1.ret.kind # "ok" THEN o1 ELSE AuthenticateSign(o1, fsys, tokenResp)

(***************************************************************************)
(* gorjun.go:42-77: the JSON of a file list.  A body is malformed, the     *)
(* JSON null, or a JSON array of file records.                             *)
(***************************************************************************)
GorjunFile(id, name) == [Id |-> id, Name |-> name]

Json(kind, items) == [json |-> kind, items |-> items]

\* json.Unmarshal into a []GorjunFile, gorjun.go:53 and gorjun.go:72: null
\* leaves the slice nil
UnmarshalFails(body) == body.json = "malformed"

Unmarshal(body) == IF body.json = "array" THEN body.items ELSE <<>>

InfoReply(gs, resp, what) ==
    IF resp.kind = "neterr"
    THEN Errorf("Failed to retrieve " \o what \o " from " \o gs.Hostname \o ": " \o resp.err)
    ELSE IF resp.kind = "readerr"
    THEN Errorf("Failed to read body from " \o gs.Hostname \o ": " \o resp.err)
    ELSE IF UnmarshalFails(resp.body)
    THEN Errorf("Failed to unmarshal contents from " \o gs.Hostname
                    \o ": invalid character '<' looking for beginning of value")
    ELSE Ok(Unmarshal(resp.body))

\* gorjun.go:42-58
ListUserFiles(gs, resp) ==
    Out(gs, InfoReply(gs, resp, "file list"),
        <<Request("GET", "https://" \o gs.Hostname \o "/kurjun/rest/raw/info?owner="
                             \o gs.Username, <<>>)>>,
        <<"ListUserFiles">>)

\* gorjun.go:61-77
GetFileByName(gs, filename, resp) ==
    Out(gs, InfoReply(gs, resp, "file information"),
        <<Request("GET", "https://" \o gs.Hostname \o "/kurjun/rest/raw/info?name="
                             \o filename, <<>>)>>,
        <<"GetFileByName">>)

(***************************************************************************)
(* gorjun.go:137-151.  http.NewRequest fails only for a URL that does not  *)
(* parse; the hosts, ids and tokens of this model all parse.               *)
(***************************************************************************)
\* http.Response.Status
StatusLine(status) ==
    IF status = StatusOK THEN "200 OK"
    ELSE IF status = 403 THEN "403 Forbidden"
    ELSE "500 Internal Server Error"

\* a delete that attaches the challenge code in place of the token
DeleteURLWithCode(gs, ID) ==
    "https://" \o gs.Hostname \o "/kurjun/rest/raw/delete?id=" \o ID \o "&token="
        \o gs.TokenCode

DeleteURL(gs, ID) ==
    "https://" \o gs.Hostname \o "/kurjun/rest/raw/delete?id=" \o ID \o "&token=" \o gs.Token

\* a delete that is refused locally without a 64-character token
RemoveFileByIDGuarded(gs, ID, resp) ==
    LET rq == <<Request("DELETE", DeleteURL(gs, ID), <<>>)>>
        tr == <<"RemoveFileByID">>
    IN  IF Len(gs.Token) # TokenLen
        THEN Out(gs, Errorf("Failed to remove file: no active token"), <<>>, tr)
        ELSE IF resp.kind = "neterr"
        THEN Out(gs, Errorf("Failed to remove file: " \o resp.err), rq, tr)
        ELSE IF resp.status # StatusOK
        THEN Out(gs, Errorf("Can't remove file - HTTP request returned "
                                \o StatusLine(resp.status) \o " code"), rq, tr)
        ELSE Out(gs, Ok(""), rq, tr)

RemoveFileByID(gs, ID, resp) ==
    LET rq == <<Request("DELETE", DeleteURL(gs, ID), <<>>)>>
        tr == <<"RemoveFileByID">>
    IN  IF resp.kind = "neterr"
        THEN Out(gs, Errorf("Failed to remove file: " \o resp.err), rq, tr)
        ELSE IF resp.status # StatusOK
        THEN Out(gs, Errorf("Can't remove file - HTTP request returned "
                                \o StatusLine(resp.status) \o " code"), rq, tr)
        ELSE Out(gs, Ok(""), rq, tr)

(***************************************************************************)
(* gorjun.go:128-134.  file[0] of an empty slice is a run-time panic.      *)
(***************************************************************************)
\* a removal that takes the last record of the lookup
RemoveFileLast(gs, filename, infoResp, deleteResp) ==
    LET o1 == GetFileByName(gs, filename, infoResp)
        file == o1.ret.val
    IN  IF o1.ret.kind # "ok"
        THEN Out(gs, Errorf("Failed to get file: " \o o1.ret.msg), o1.reqs, o1.trace)
        ELSE IF Len(file) = 0
        THEN Out(gs, Panic("index out of range [0] with length 0"), o1.reqs, o1.trace)
        ELSE LET o2 == RemoveFileByID(gs, file[Len(file)].Id, deleteResp)
             IN  Out(o2.g, o2.ret, o1.reqs \o o2.reqs, o1.trace \o o2.trace)

RemoveFile(gs, filename, infoResp, deleteResp) ==
    LET o1 == GetFileByName(gs, filename, infoResp)
        file == o1.ret.val
    IN  IF o1.ret.kind # "ok"
        THEN Out(gs, Errorf("Failed to get file: " \o o1.ret.msg), o1.reqs, o1.trace)
        ELSE IF Len(file) = 0
        THEN Out(gs, Panic("index out of range [0] with length 0"), o1.reqs, o1.trace)
        ELSE LET o2 == RemoveFileByID(gs, file[1].Id, deleteResp)
             IN  Out(o2.g, o2.ret, o1.reqs \o o2.reqs, o1.trace \o o2.trace)

(***************************************************************************)
(* gorjun.go:80-124                                                        *)
(***************************************************************************)
\* filepath.Base: the last element of a path
RECURSIVE LastSlash(_, _)
LastSlash(path, i) ==
    IF i = 0 THEN 0
    ELSE IF SubSeq(path, i, i) = "/" THEN i
    ELSE LastSlash(path, i - 1)

RECURSIVE Base(_)
Base(path) ==
    IF path = "" THEN "."
    ELSE IF Len(path) > 1 /\ SubSeq(path, Len(path), Len(path)) = "/"
    THEN Base(SubSeq(path, 1, Len(path) - 1))
    ELSE IF path = "/" THEN "/"
    ELSE SubSeq(path, LastSlash(path, Len(path)) + 1, Len(path))

\* gorjun.go:91-103: the multipart form, the file first and the token second
UploadForm(gs, filename) == << <<"file", Base(filename)>>, <<"token", gs.Token>> >>

UploadURL(gs) == "https://" \o gs.Hostname \o "/kurjun/rest/raw/upload"

UploadFile(gs, fsys, filename, resp) ==
    LET rq == <<Request("POST", UploadURL(gs), UploadForm(gs, filename))>>
        tr == <<"UploadFile">>
    IN  IF IsNotExist(fsys, filename)
        THEN Out(gs, Errorf(filename \o " not found"), <<>>, tr)
        ELSE IF OpenFails(fsys, filename)
        THEN Out(gs, Errorf("Failed to open file: " \o OpenError(fsys, filename)), <<>>, tr)
        ELSE IF resp.kind = "neterr"
        THEN Out(gs, Errorf("Failed to execute HTTP request: " \o resp.err), rq, tr)
        ELSE IF resp.status # StatusOK
        THEN Out(gs, Errorf("Upload failed. Server returned " \o StatusLine(resp.status)
                                \o " error"), rq, tr)
        ELSE IF resp.kind = "readerr"
        THEN Out(gs, Errorf("Failed to read response body: " \o resp.err), rq, tr)
        ELSE Out(gs, Ok(resp.body), rq, tr)

\* gorjun.go:154-161
DownloadFile(gs, filename, outputDirectory) == Out(gs, Ok(""), <<>>, <<"DownloadFile">>)

DownloadFileByID(gs, ID, outputDirectory) == Out(gs, Ok(""), <<>>, <<"DownloadFileByID">>)

(***************************************************************************)
(* The state after construction and the callers' inputs.                   *)
(***************************************************************************)
Host == "cdn.subut.ai:8338"
TargetEmail == "email@example.com"
GoodPass == "gpgpassphrase"
UploadPath == "/tmp/libgorjun-test"

\* new(GorjunServer) with the Hostname set, as every caller in auth_test.go does
NewServer ==
    [Username |-> "", Email |-> "", Hostname |-> Host, GPGDirectory |-> "",
     Token |-> "", TokenCode |-> "", Passphrase |-> ""]

\* the three keyring files of a key directory
KeyDir(dir, pub, kbx, sec) ==
    (dir \o "/pubring.gpg" :> pub) @@ (dir \o "/pubring.kbx" :> kbx)
        @@ (dir \o "/secring.gpg" :> sec)

PubA == Entity("A", {TargetEmail}, "none", "")
SecA == Entity("A", {TargetEmail}, "plain", "")
PubL == Entity("L", {TargetEmail, "second@example.com"}, "none", "")
SecL == Entity("L", {TargetEmail, "second@example.com"}, "locked", GoodPass)

\* the file system a session runs on: a plain key in the default directory,
\* a locked key in /keys, one file to upload and one that cannot be opened
SessionFs ==
    { KeyDir(Home \o "/.gnupg", Ring(<<PubA>>), Absent, Ring(<<SecA>>))
          @@ KeyDir("/keys", Ring(<<PubL>>), Garbage, Ring(<<SecL>>))
          @@ (UploadPath :> File("data", <<>>)) @@ ("/tmp/private" :> NoPerm) }

Call(op, args, resps) == [op |-> op, args |-> args, resps |-> resps]

NoHist ==
    [exch |-> "none", lastGood |-> "", code |-> "", ready |-> "none", via |-> "none"]

Init ==
    /\ g = NewServer
    /\ fs \in SessionFs
    /\ call = Call("new", <<>>, <<>>)
    /\ ret = Ok("")
    /\ reqs = <<>>
    /\ trace = <<>>
    /\ hist = NoHist
    /\ servers = <<>>

Ran(tr, step) == \E i \in 1..Len(tr) : tr[i] = step

\* The history of the session.
\*   exch, lastGood: whether the most recent token exchange whose answer
\*     arrived was accepted (the operation returned no error) or rejected,
\*     and the body the server sent in the most recent accepted one;
\*   code: the body of the most recent challenge fetch that succeeded;
\*   ready: how far the handshake has come since then: "issued" after a
\*     successful fetch, "signed" after a successful signature over that
\*     challenge, "none" after a failed step and after a token POST;
\*   via: the value of ready when the most recent accepted exchange was
\*     posted.
AfterFetch(h, c, out) ==
    IF ~Ran(out.trace, "GetAuthTokenCode") THEN h
    ELSE IF c.resps[1].kind = "ok"
    THEN [h EXCEPT !.code = c.resps[1].body, !.ready = "issued"]
    ELSE [h EXCEPT !.ready = "none"]

AfterSign(h, c, out) ==
    LET signedOk == IF c.op = "SignToken" THEN out.ret.kind = "ok"
                    ELSE Ran(out.trace, "GetActiveToken")
        token == IF c.op = "SignToken" THEN c.args[1] ELSE out.g.TokenCode
    IN  IF ~Ran(out.trace, "SignToken") THEN h
        ELSE IF ~signedOk THEN [h EXCEPT !.ready = "none"]
        ELSE IF h.ready = "issued" /\ token = h.code THEN [h EXCEPT !.ready = "signed"]
        ELSE h

AfterExchange(h, c, out, tokenResp) ==
    IF ~Ran(out.trace, "GetActiveToken") THEN h
    ELSE IF tokenResp.kind # "ok" THEN [h EXCEPT !.ready = "none"]
    ELSE IF out.ret.kind = "ok"
    THEN [h EXCEPT !.exch = "ok", !.lastGood = tokenResp.body, !.via = h.ready,
                   !.ready = "none"]
    ELSE [h EXCEPT !.exch = "rejected", !.ready = "none"]

HistAfter(h, c, out, tokenResp) ==
    AfterExchange(AfterSign(AfterFetch(h, c, out), c, out), c, out, tokenResp)

\* an operation ran: the struct, the results and the history after it
Finish(op, args, resps, out, tokenResp) ==
    /\ g' = out.g
    /\ call' = Call(op, args, resps)
    /\ ret' = out.ret
    /\ reqs' = out.reqs
    /\ trace' = out.trace
    /\ hist' = HistAfter(hist, Call(op, args, resps), out, tokenResp)
    /\ UNCHANGED <<fs, servers>>

Usernames == {"user"}
GpgDirs == {"", "/keys"}
\* the passphrase and the key directory a caller authenticates with
Profiles == {<<GoodPass, "">>, <<"", "/keys">>}
CodeResps == TextResps(ChallengeBodies)
TokenResps == TextResps(TokenBodies)

CallAuthenticateUser ==
    \E username \in Usernames, profile \in Profiles,
       codeResp \in CodeResps, tokenResp \in TokenResps \cup {NoResp} :
        LET out == AuthenticateUser(g, username, TargetEmail, profile[1], profile[2], fs,
                                    codeResp, tokenResp)
        IN  /\ (tokenResp = NoResp) = ~Ran(out.trace, "GetActiveToken")
            /\ Finish("AuthenticateUser", <<username, TargetEmail, profile[1], profile[2]>>,
                      <<codeResp, tokenResp>>, out, tokenResp)

CallGetAuthTokenCode ==
    \E codeResp \in CodeResps :
        Finish("GetAuthTokenCode", <<>>, <<codeResp>>, GetAuthTokenCode(g, codeResp), NoResp)

CallSignToken ==
    \E token \in {g.TokenCode, "111"} :
        Finish("SignToken", <<token>>, <<>>, SignToken(g, fs, token), NoResp)

\* the signature a caller hands to GetActiveToken: the one SignToken just
\* returned, or any other string
Signatures == (IF call.op = "SignToken" /\ ret.kind = "ok" THEN {ret.val} ELSE {}) \cup {"forged"}

CallGetActiveToken ==
    \E signed \in Signatures, tokenResp \in TokenResps :
        Finish("GetActiveToken", <<signed>>, <<tokenResp>>,
               GetActiveToken(g, signed, tokenResp), tokenResp)

FileName == "libgorjun-test"
File1 == GorjunFile("id-1", FileName)
File2 == GorjunFile("id-2", FileName)

\* the answers of the server to a lookup of files
InfoResps ==
    {Resp("neterr", e, 0, Json("null", <<>>)) : e \in NetErrors}
        \cup {Resp("readerr", e, StatusOK, Json("null", <<>>)) : e \in ReadErrors}
        \cup {Resp("ok", "", StatusOK, b) :
                b \in {Json("malformed", <<>>), Json("null", <<>>), Json("array", <<>>),
                       Json("array", <<File1>>), Json("array", <<File2, File1>>)}}

\* the answers of the server to a delete request
DeleteResps ==
    {Resp("neterr", e, 0, "") : e \in NetErrors}
        \cup {Resp("ok", "", st, "") : st \in {StatusOK, 403}}

\* the answers of the server to an upload
UploadResps ==
    {Resp("neterr", e, 0, "") : e \in NetErrors}
        \cup {Resp("readerr", e, StatusOK, "") : e \in ReadErrors}
        \cup {Resp("ok", "", StatusOK, "id-3"), Resp("ok", "", 500, "")}

CallUploadFile ==
    \E filename \in {UploadPath, "/tmp/private", "/tmp/missing"}, resp \in UploadResps \cup {NoResp} :
        LET out == UploadFile(g, fs, filename, resp)
        IN  /\ (resp = NoResp) = (out.reqs = <<>>)
            /\ Finish("UploadFile", <<filename>>, <<resp>>, out, NoResp)

CallRemoveFileByID ==
    \E ID \in {"id-1"}, resp \in DeleteResps :
        Finish("RemoveFileByID", <<ID>>, <<resp>>, RemoveFileByID(g, ID, resp), NoResp)

CallRemoveFile ==
    \E infoResp \in InfoResps, deleteResp \in DeleteResps \cup {NoResp} :
        LET out == RemoveFile(g, FileName, infoResp, deleteResp)
        IN  /\ (deleteResp = NoResp) = ~Ran(out.trace, "RemoveFileByID")
            /\ Finish("RemoveFile", <<FileName>>, <<infoResp, deleteResp>>, out, NoResp)

CallGetFileByName ==
    \E infoResp \in InfoResps :
        Finish("GetFileByName", <<FileName>>, <<infoResp>>,
               GetFileByName(g, FileName, infoResp), NoResp)

CallListUserFiles ==
    \E infoResp \in InfoResps :
        Finish("ListUserFiles", <<>>, <<infoResp>>, ListUserFiles(g, infoResp), NoResp)

CallDownloadFile ==
    Finish("DownloadFile", <<FileName, "/tmp">>, <<>>, DownloadFile(g, FileName, "/tmp"),
           NoResp)

CallDownloadFileByID ==
    Finish("DownloadFileByID", <<"id-1", "/tmp">>, <<>>,
           DownloadFileByID(g, "id-1", "/tmp"), NoResp)

Next ==
    \/ CallAuthenticateUser
    \/ CallGetAuthTokenCode
    \/ CallSignToken
    \/ CallGetActiveToken
    \/ CallUploadFile
    \/ CallRemoveFileByID
    \/ CallRemoveFile
    \/ CallGetFileByName
    \/ CallListUserFiles
    \/ CallDownloadFile
    \/ CallDownloadFileByID

Spec == Init /\ [][Next]_vars

(***************************************************************************)
(* SignToken alone, over generated key directories.                        *)
(***************************************************************************)
SeqsUpTo(S, n) == UNION {[1..k -> S] : k \in 0..n}

PubC == Entity("C", {"EMAIL@EXAMPLE.COM"}, "none", "")
SecN == Entity("N", {TargetEmail}, "none", "")

PubFiles == {Absent, NoPerm, Garbage} \cup {Ring(r) : r \in SeqsUpTo({PubA, PubL, PubC}, MaxRing)}
ArmoredFiles ==
    {Armored(PrivateKeyType, <<SecA>>), Armored(PrivateKeyType, <<NilEntity>>),
     Armored(PrivateKeyType, <<>>), Armored(PublicKeyType, <<PubA>>)}

SecFiles ==
    {Absent, NoPerm, Garbage} \cup ArmoredFiles
        \cup {Ring(r) : r \in SeqsUpTo({SecA, SecL, SecN}, MaxRing)}

KeyFs == {KeyDir("/keys", pub, kbx, sec) :
            pub \in PubFiles, kbx \in {Absent, Garbage}, sec \in SecFiles}

InitKeys ==
    /\ \E email \in {TargetEmail, "second@example.com"},
          passphrase \in {"", GoodPass, "wrong"}, gpgdir \in GpgDirs :
            g = [NewServer EXCEPT !.Username = "user", !.Email = email,
                                  !.Passphrase = passphrase, !.GPGDirectory = gpgdir]
    /\ fs \in KeyFs
    /\ call = Call("new", <<>>, <<>>)
    /\ ret = Ok("")
    /\ reqs = <<>>
    /\ trace = <<>>
    /\ hist = NoHist
    /\ servers = <<>>

\* auth_test.go:38
CallDecodePrivateKey ==
    Finish("decodePrivateKey", <<>>, <<>>, decodePrivateKey(g, fs), NoResp)

NextKeys == CallSignToken \/ CallDecodePrivateKey

SpecKeys == InitKeys /\ [][NextKeys]_vars

(***************************************************************************)
(* Two GorjunServer instances used concurrently, each by its own caller.   *)
(* A handshake runs as the steps of auth.go:21-43, and the steps of the    *)
(* two instances interleave; a file operation is one step.  Every method   *)
(* has the pointer receiver g and reaches the fields of that instance      *)
(* only; the package has no variables.  Beside each instance stands what   *)
(* the same calls, with the same answers, give when they run alone         *)
(* (alone).                                                                *)
(***************************************************************************)
NoPlan == [codeResp |-> NoResp, tokenResp |-> NoResp]

Instance(gs) ==
    [g |-> gs, pc |-> "idle", plan |-> NoPlan, signed |-> "", ret |-> Ok(""),
     reqs |-> <<>>, alone |-> Out(gs, Ok(""), <<>>, <<>>), calls |-> 0]

UserOf(i) == IF i = 1 THEN "user" ELSE "second"
HostOf(i) == IF i = 1 THEN Host ELSE "localhost:8338"

\* the fields of Token and TokenCode kept in one place for all instances
PutShared(srv, i, inst) ==
    [j \in DOMAIN srv |->
        IF j = i THEN inst
        ELSE [srv[j] EXCEPT !.g.Token = inst.g.Token, !.g.TokenCode = inst.g.TokenCode]]

\* a method writes the fields of its receiver
Put(srv, i, inst) == [srv EXCEPT ![i] = inst]

\* the answers of the server to instance i
TwoCodeResps(i) ==
    {Resp("neterr", e, 0, "") : e \in NetErrors}
        \cup {Resp("ok", "", StatusOK, IF i = 1 THEN Code32 ELSE Code31)}
TwoTokenResps(i) ==
    {Resp("ok", "", StatusOK, b) : b \in {IF i = 1 THEN Tok64A ELSE Tok64B, Tok63}}

InitTwo ==
    /\ g = NewServer
    /\ fs \in SessionFs
    /\ call = Call("new", <<>>, <<>>)
    /\ ret = Ok("")
    /\ reqs = <<>>
    /\ trace = <<>>
    /\ hist = NoHist
    /\ servers = [i \in 1..2 |-> Instance([NewServer EXCEPT !.Hostname = HostOf(i)])]

\* auth.go:21-29: a caller starts AuthenticateUser on an idle instance
StartAuthenticateUser ==
    \E i \in DOMAIN servers, profile \in Profiles :
      \E codeResp \in TwoCodeResps(i), tokenResp \in TwoTokenResps(i) \cup {NoResp} :
        LET inst == servers[i]
            alone == AuthenticateUser(inst.alone.g, UserOf(i), TargetEmail, profile[1],
                                      profile[2], fs, codeResp, tokenResp)
        IN  /\ inst.pc = "idle"
            /\ inst.calls < MaxCalls
            /\ (tokenResp = NoResp) = ~Ran(alone.trace, "GetActiveToken")
            /\ servers' = Put(servers, i,
                    [inst EXCEPT !.g = SetIdentity(inst.g, UserOf(i), TargetEmail,
                                                   profile[1], profile[2]),
                                 !.pc = "fetch",
                                 !.plan = [codeResp |-> codeResp, tokenResp |-> tokenResp],
                                 !.signed = "", !.ret = Ok(""), !.reqs = <<>>,
                                 !.alone = alone, !.calls = @ + 1])
            /\ UNCHANGED <<g, fs, call, ret, reqs, trace, hist>>

\* auth.go:30-33
StepGetAuthTokenCode ==
    \E i \in DOMAIN servers :
        LET inst == servers[i]
            o == GetAuthTokenCode(inst.g, inst.plan.codeResp)
        IN  /\ inst.pc = "fetch"
            /\ servers' = Put(servers, i,
                    [inst EXCEPT !.g = o.g, !.ret = o.ret, !.reqs = o.reqs,
                                 !.pc = IF o.ret.kind = "ok" THEN "sign" ELSE "idle"])
            /\ UNCHANGED <<g, fs, call, ret, reqs, trace, hist>>

\* auth.go:34-37
StepSignToken ==
    \E i \in DOMAIN servers :
        LET inst == servers[i]
            o == SignToken(inst.g, fs, inst.g.TokenCode)
        IN  /\ inst.pc = "sign"
            /\ servers' = Put(servers, i,
                    IF o.ret.kind = "ok"
                    THEN [inst EXCEPT !.g = o.g, !.signed = o.ret.val, !.pc = "exchange"]
                    ELSE [inst EXCEPT !.g = o.g, !.ret = o.ret, !.pc = "idle"])
            /\ UNCHANGED <<g, fs, call, ret, reqs, trace, hist>>

\* auth.go:38-42
StepGetActiveToken ==
    \E i \in DOMAIN servers :
        LET inst == servers[i]
            o == GetActiveToken(inst.g, inst.signed, inst.plan.tokenResp)
        IN  /\ inst.pc = "exchange"
            /\ servers' = Put(servers, i,
                    [inst EXCEPT !.g = o.g, !.ret = o.ret, !.reqs = inst.reqs \o o.reqs,
                                 !.pc = "idle"])
            /\ UNCHANGED <<g, fs, call, ret, reqs, trace, hist>>

\* gorjun.go:137-151: a file operation on an idle instance
StepRemoveFileByID ==
    \E i \in DOMAIN servers, resp \in DeleteResps :
        LET inst == servers[i]
            o == RemoveFileByID(inst.g, "id-1", resp)
        IN  /\ inst.pc = "idle"
            /\ inst.calls < MaxCalls
            /\ servers' = Put(servers, i,
                    [inst EXCEPT !.g = o.g, !.ret = o.ret, !.reqs = o.reqs,
                                 !.alone = RemoveFileByID(inst.alone.g, "id-1", resp),
                                 !.calls = @ + 1])
            /\ UNCHANGED <<g, fs, call, ret, reqs, trace, hist>>

NextTwo ==
    \/ StartAuthenticateUser
    \/ StepGetAuthTokenCode
    \/ StepSignToken
    \/ StepGetActiveToken
    \/ StepRemoveFileByID

SpecTwo == InitTwo /\ [][NextTwo]_vars

(***************************************************************************)
(* Properties.  They read the state an operation leaves: the operation     *)
(* that ran last (call), what it returned (ret), the requests it sent      *)
(* (reqs) and its steps (trace).                                           *)
(***************************************************************************)
Times(step) == Cardinality({i \in 1..Len(trace) : trace[i] = step})

\* the last operation fetched a challenge, and the server's answer to it
FetchedCode == call.op \in {"GetAuthTokenCode", "AuthenticateUser"}
CodeAnswer == call.resps[1]

\* the last operation posted the signed message, and the server's answer
PostedToken == Ran(trace, "GetActiveToken")
TokenAnswer == IF call.op = "GetActiveToken" THEN call.resps[1] ELSE call.resps[2]
TokenArrived == PostedToken /\ TokenAnswer.kind = "ok"

\* C1: whenever the answer to the token POST arrives, the operation returns
\* no error and the session's Token is that body, unchanged, if and only if
\* the body is exactly 64 characters long; the session is then Authenticated
\* (it holds a 64-character token).
C1_TokenStoredIff64 ==
    TokenArrived =>
        /\ (ret.kind = "ok" /\ g.Token = TokenAnswer.body) <=> (Len(TokenAnswer.body) = 64)
        /\ (Len(TokenAnswer.body) = 64) => Len(g.Token) = 64

C1_Witness ==
    /\ call.op = "GetActiveToken"
    /\ TokenArrived
    /\ Len(TokenAnswer.body) = 64
    /\ ret.kind = "ok"
    /\ g.Token = TokenAnswer.body

\* C2 as claimed: when the token POST is answered by a body whose length is
\* not 64, the operation fails and the error message equals the raw body.
C2_MessageEqualsBody ==
    (TokenArrived /\ Len(TokenAnswer.body) # 64) =>
        (ret.kind = "error" /\ ret.msg = TokenAnswer.body)

\* C2 as amended: when the token POST is answered by a body whose length is
\* not 64, the operation fails and the error message is the fixed text
\* "Failed to retrieve active token: " followed by the raw body, unchanged.
C2_MessageEndsWithBody ==
    (TokenArrived /\ Len(TokenAnswer.body) # 64) =>
        /\ ret.kind = "error"
        /\ ret.msg = "Failed to retrieve active token: " \o TokenAnswer.body

C2_Witness ==
    /\ call.op = "GetActiveToken"
    /\ TokenArrived
    /\ TokenAnswer.body = "Signature verification failed"
    /\ ret.msg = "Failed to retrieve active token: Signature verification failed"

\* the requests of the last operation that carry a token: uploads and deletes
IsUpload(rq) == rq.method = "POST" /\ rq.url = "https://" \o Host \o "/kurjun/rest/raw/upload"
IsDelete(rq) == rq.method = "DELETE"

\* request rq carries tok as its token: in the form field "token" of an
\* upload, after "&token=" in the URL of a delete
Carries(rq, tok) ==
    IF IsUpload(rq) THEN rq.body[2] = <<"token", tok>>
    ELSE \E id \in {File1.Id, File2.Id} :
            rq.url = "https://" \o Host \o "/kurjun/rest/raw/delete?id=" \o id
                         \o "&token=" \o tok

TokenRequests == {i \in 1..Len(reqs) : IsUpload(reqs[i]) \/ IsDelete(reqs[i])}

\* C3 as claimed: once a token exchange has succeeded, the token every
\* upload and delete request carries is the 64-character body of the most
\* recent successful exchange.
C3_CarriesLastGoodToken ==
    hist.lastGood # "" =>
        \A i \in TokenRequests : Carries(reqs[i], hist.lastGood) /\ Len(hist.lastGood) = 64

\* C3 as amended: every upload and delete request carries the session's
\* Token field as it is: the 64-character body of the most recent successful
\* token exchange when no rejected exchange came after it, and the empty
\* string when the most recent answered exchange was rejected or none has
\* been answered yet.
C3_CarriesCurrentToken ==
    \A i \in TokenRequests :
        /\ Carries(reqs[i], g.Token)
        /\ IF hist.exch = "ok"
           THEN Carries(reqs[i], hist.lastGood) /\ Len(hist.lastGood) = 64
           ELSE Carries(reqs[i], "")

C3_Witness ==
    /\ call.op = "RemoveFileByID"
    /\ TokenRequests # {}
    /\ hist.exch = "ok"
    /\ hist.lastGood = Tok64B
    /\ Carries(reqs[1], Tok64B)

\* C4: within one AuthenticateUser call each step runs at most once and in
\* order, at most one challenge request and one token POST are sent, and a
\* step that fails ends the call with that step's error: no later step runs.
C4_FailedStepAborts ==
    call.op = "AuthenticateUser" =>
        LET signRet == SignToken(g, fs, g.TokenCode).ret
            posts == {i \in 1..Len(reqs) : reqs[i].method = "POST"}
            gets == {i \in 1..Len(reqs) : reqs[i].method = "GET"}
        IN  /\ Times("GetAuthTokenCode") = 1 /\ Cardinality(gets) = 1
            /\ Times("SignToken") <= 1
            /\ Times("GetActiveToken") <= 1 /\ Cardinality(posts) = Times("GetActiveToken")
            /\ Len(reqs) = Cardinality(gets) + Cardinality(posts)
            /\ CodeAnswer.kind # "ok" =>
                 /\ ret.kind = "error"
                 /\ ret = GetAuthTokenCode(g, CodeAnswer).ret
                 /\ Times("SignToken") = 0 /\ Times("GetActiveToken") = 0
            /\ (CodeAnswer.kind = "ok" /\ signRet.kind # "ok") =>
                 /\ ret = signRet
                 /\ Times("SignToken") = 1 /\ Times("GetActiveToken") = 0
            /\ (CodeAnswer.kind = "ok" /\ signRet.kind = "ok") =>
                 /\ Times("SignToken") = 1 /\ Times("GetActiveToken") = 1
                 /\ trace[1] = "GetAuthTokenCode" /\ trace[2] = "SignToken"
                 /\ trace[Len(trace)] = "GetActiveToken"
                 /\ (TokenAnswer.kind # "ok" \/ Len(TokenAnswer.body) # 64) =>
                        ret.kind = "error"

C4_Witness ==
    /\ call.op = "AuthenticateUser"
    /\ CodeAnswer.kind = "ok"
    /\ Times("SignToken") = 1
    /\ Times("GetActiveToken") = 0
    /\ ret.kind = "error"
    /\ Len(reqs) = 1

\* C5 as claimed: the challenge fetch fails, and the handshake does not go
\* on to signing, whenever the transport fails or the body is empty.
C5_EmptyBodyFails ==
    (FetchedCode /\ (CodeAnswer.kind # "ok" \/ CodeAnswer.body = "")) =>
        (ret.kind = "error" /\ ~Ran(trace, "SignToken"))

\* C5 as amended: the challenge fetch fails with a challenge-request error,
\* and the handshake does not go on to signing, whenever the transport fails
\* or the body cannot be read; an empty body is taken as the challenge, and
\* the handshake goes on to sign it.
C5_TransportFailureFails ==
    FetchedCode =>
        /\ CodeAnswer.kind = "neterr" =>
             /\ ret = Errorf("Failed to retrieve unsigned token: " \o CodeAnswer.err)
             /\ ~Ran(trace, "SignToken")
        /\ CodeAnswer.kind = "readerr" =>
             /\ ret = Errorf("Failed to read body from " \o Host \o ": " \o CodeAnswer.err)
             /\ ~Ran(trace, "SignToken")
        /\ (CodeAnswer.kind = "ok" /\ CodeAnswer.body = "") =>
             /\ g.TokenCode = ""
             /\ call.op = "GetAuthTokenCode" => ret.kind = "ok"
             /\ call.op = "AuthenticateUser" => Ran(trace, "SignToken")

C5_Witness ==
    /\ call.op = "AuthenticateUser"
    /\ CodeAnswer.kind = "ok"
    /\ CodeAnswer.body = ""
    /\ Ran(trace, "SignToken")
    /\ ret.kind = "ok"

\* C6: when the challenge request succeeds, TokenCode is the raw body,
\* unchanged, whatever its length: GetAuthTokenCode returns no error, and
\* the handshake goes on to sign and succeeds whenever signing and the token
\* exchange do.
C6_TokenCodeIsRawBody ==
    (FetchedCode /\ CodeAnswer.kind = "ok") =>
        /\ g.TokenCode = CodeAnswer.body
        /\ call.op = "GetAuthTokenCode" => ret.kind = "ok"
        /\ call.op = "AuthenticateUser" =>
             /\ Ran(trace, "SignToken")
             /\ (TokenArrived /\ Len(TokenAnswer.body) = 64) => ret.kind = "ok"

C6_Witness ==
    /\ call.op = "AuthenticateUser"
    /\ CodeAnswer.kind = "ok"
    /\ Len(CodeAnswer.body) = 31
    /\ g.TokenCode = CodeAnswer.body
    /\ ret.kind = "ok"

\* the key directory of the last SignToken call, read from the file system
PubFile == FileAt(fs, g.GPGDirectory \o "/pubring.gpg")
KbxFile == FileAt(fs, g.GPGDirectory \o "/pubring.kbx")
SecFile == FileAt(fs, g.GPGDirectory \o "/secring.gpg")

Signed == call.op = "SignToken" /\ g.GPGDirectory # ""

Matches(e) == g.Email \in e.emails

\* the first entity of ring r, in its order, with an identity of the
\* session's e-mail address; 0 when there is none
FirstMatch(r) ==
    IF \E i \in 1..Len(r) : Matches(r[i])
    THEN CHOOSE i \in 1..Len(r) : Matches(r[i]) /\ \A j \in 1..(i - 1) : ~Matches(r[j])
    ELSE 0

\* C7: in a key directory with pubring.kbx, without pubring.gpg and with a
\* secring.gpg that holds a usable key of the user, SignToken opens and
\* reads pubring.kbx and does not fail for the lack of pubring.gpg.
C7_FallbackRingIsOpened ==
    (/\ Signed
     /\ PubFile.state = "absent"
     /\ KbxFile.state # "absent"
     /\ SecFile.state = "ring"
     /\ FirstMatch(SecFile.ring) # 0
     /\ SecFile.ring[FirstMatch(SecFile.ring)].priv = "plain") =>
        /\ Ran(trace, Step("open", g.GPGDirectory \o "/pubring.kbx"))
        /\ ret.msg # "Failed to open public keyring file: open " \o g.GPGDirectory
                        \o "/pubring.gpg: no such file or directory"

\* C8: when both keyrings are read, the entity SignToken signs with is the
\* first one of the private keyring, in its order, that has an identity with
\* exactly the session's e-mail address; when the public keyring has no such
\* entity, or the private keyring has none, SignToken returns an error and
\* no signature, and the two errors differ.
C8_FirstMatchOrKeyNotFound ==
    (Signed /\ PubFile.state = "ring") =>
        LET pubI == FirstMatch(PubFile.ring)
            secI == FirstMatch(SecFile.ring)
            noPublic == Errorf("Public key for " \o g.Email \o " was not found")
            noPrivate == Errorf("Private key for " \o g.Email \o " was not found")
        IN  /\ noPublic # noPrivate
            /\ pubI = 0 => (ret = noPublic /\ Times(Step("open", SecringGpg(g))) = 0)
            /\ (pubI # 0 /\ SecFile.state = "ring" /\ secI = 0) => ret = noPrivate
            /\ (pubI = 0 \/ secI = 0) => \A i \in 1..Len(trace) : trace[i] # Step("sign", "A")
                                             /\ trace[i] # Step("sign", "L")
                                             /\ trace[i] # Step("sign", "N")
            /\ (pubI # 0 /\ SecFile.state = "ring" /\ secI # 0) =>
                 /\ Ran(trace, Step("sign", SecFile.ring[secI].id))
                 /\ ret.kind = "ok" => ret.val = Signature(SecFile.ring[secI], call.args[1])

C8_Witness ==
    /\ Signed
    /\ PubFile.state = "ring"
    /\ FirstMatch(PubFile.ring) = 2
    /\ SecFile = Ring(<<SecA, SecL>>)
    /\ g.Email = TargetEmail
    /\ ret = Ok(Signature(SecA, call.args[1]))

\* C9: when the private key SignToken resolves is protected by a passphrase,
\* SignToken returns a signing error and no signature if the session's
\* passphrase is empty or is not the key's, and returns the signature of the
\* token if it is the key's.
C9_LockedKeyNeedsPassphrase ==
    (/\ Signed
     /\ PubFile.state = "ring" /\ FirstMatch(PubFile.ring) # 0
     /\ SecFile.state = "ring" /\ FirstMatch(SecFile.ring) # 0
     /\ SecFile.ring[FirstMatch(SecFile.ring)].priv = "locked") =>
        LET key == SecFile.ring[FirstMatch(SecFile.ring)]
        IN  IF g.Passphrase = key.pass
            THEN ret = Ok(Signature(key, call.args[1]))
            ELSE /\ ret.kind = "error"
                 /\ ret.val = ""
                 /\ ret.msg = "Failed to sign token: openpgp: invalid argument: "
                                  \o "signing entity's private key must be decrypted"

C9_Witness ==
    /\ Signed
    /\ PubFile.state = "ring" /\ FirstMatch(PubFile.ring) # 0
    /\ SecFile.state = "ring" /\ FirstMatch(SecFile.ring) # 0
    /\ SecFile.ring[FirstMatch(SecFile.ring)] = SecL
    /\ g.Passphrase = GoodPass
    /\ ret = Ok(Signature(SecL, call.args[1]))

\* C10: when the lookup by name answers with zero records, RemoveFile
\* returns an error to its caller and sends no delete request.
C10_NoRecordIsAnError ==
    (/\ call.op = "RemoveFile"
     /\ call.resps[1].kind = "ok"
     /\ call.resps[1].body.json \in {"array", "null"}
     /\ Len(call.resps[1].body.items) = 0) =>
        /\ ret.kind = "error"
        /\ \A i \in 1..Len(reqs) : reqs[i].method # "DELETE"

\* the delete requests of the last operation
Deletes == {i \in 1..Len(reqs) : IsDelete(reqs[i])}

At(step) ==
    IF Ran(trace, step) THEN CHOOSE i \in 1..Len(trace) : trace[i] = step ELSE 0

\* C13 as claimed: whenever the session holds a token, the exchange that set
\* it came after a successful challenge fetch and a successful signature
\* over that challenge, in this order.
C13_TokenOnlyAfterSigned ==
    g.Token # "" => hist.via = "signed"

\* C13 as amended: the Token is set only by a token exchange that the server
\* answered with a 64-character body.  Inside AuthenticateUser that exchange
\* is posted only after a successful challenge fetch and a successful
\* signature over that challenge, in this order, and the call fails only
\* when one of the three steps fails; GetActiveToken called on its own can
\* set the Token without a challenge having been fetched or signed.
C13_HandshakeOrderInAuthenticate ==
    /\ g.Token # "" => (hist.exch = "ok" /\ g.Token = hist.lastGood)
    /\ (call.op = "AuthenticateUser" /\ PostedToken) =>
         /\ CodeAnswer.kind = "ok"
         /\ SignToken(g, fs, g.TokenCode).ret.kind = "ok"
         /\ 0 < At("GetAuthTokenCode") /\ At("GetAuthTokenCode") < At("SignToken")
         /\ At("SignToken") < At("GetActiveToken")
    /\ (call.op = "AuthenticateUser" /\ ret.kind = "ok") =>
         (PostedToken /\ hist.via = "signed" /\ Len(g.Token) = 64)
    /\ (call.op = "AuthenticateUser" /\ ret.kind # "ok") =>
         \/ CodeAnswer.kind # "ok"
         \/ SignToken(g, fs, g.TokenCode).ret.kind # "ok"
         \/ (PostedToken /\ hist.exch # "ok")
         \/ (PostedToken /\ TokenAnswer.kind # "ok")

C13_Witness ==
    /\ call.op = "GetActiveToken"
    /\ ret.kind = "ok"
    /\ g.Token = Tok64A
    /\ hist.via = "none"
    /\ hist.code = ""

\* the token POSTs of the last operation
TokenPosts ==
    {i \in 1..Len(reqs) :
        reqs[i].method = "POST" /\ reqs[i].url = "https://" \o Host \o "/kurjun/rest/auth/token"}

\* the signature the last operation posted: the argument of GetActiveToken,
\* or what SignToken returned inside AuthenticateUser
PostedSignature ==
    IF call.op = "GetActiveToken" THEN call.args[1]
    ELSE SignToken(g, fs, g.TokenCode).ret.val

\* C14: the message of every token POST is the fixed header, a blank line,
\* the current challenge code, a newline, the signature and a newline, in
\* this order, and it is posted with the session's user name and nothing
\* else; the challenge code is the one that was fetched, unaltered.
C14_EnvelopeFraming ==
    PostedToken =>
        /\ Cardinality(TokenPosts) = 1
        /\ g.TokenCode = hist.code
        /\ \A i \in TokenPosts :
              reqs[i].body =
                  << <<"message", "-----BEGIN PGP SIGNED MESSAGE-----\nHash: SHA256\n\n"
                                      \o hist.code \o "\n" \o PostedSignature \o "\n">>,
                     <<"user", g.Username>> >>

C14_Witness ==
    /\ call.op = "AuthenticateUser"
    /\ PostedToken
    /\ g.Username = "user"
    /\ reqs[2].body[1][2] = "-----BEGIN PGP SIGNED MESSAGE-----\nHash: SHA256\n\n" \o Code32
                                \o "\n" \o Signature(SecA, Code32) \o "\n"

\* the operations that are no step of the handshake
FrameOps ==
    {"SignToken", "ListUserFiles", "GetFileByName", "UploadFile", "RemoveFile",
     "RemoveFileByID", "DownloadFile", "DownloadFileByID"}

\* C15: SignToken and the file operations leave every field of the session
\* as it was, whether they succeed or fail, and run no step of the
\* handshake: they send no request to the token endpoint.
C15_FrameOfFileOperations ==
    [][call'.op \in FrameOps =>
          /\ g' = g
          /\ ~Ran(trace', "GetAuthTokenCode") /\ ~Ran(trace', "GetActiveToken")
          /\ \A i \in 1..Len(reqs') :
                 /\ reqs'[i].url # TokenURL(g)
                 /\ reqs'[i].url # ChallengeURL(g)]_vars

C15_Witness ==
    /\ call.op = "SignToken"
    /\ call.args[1] = "111"
    /\ ret.kind = "ok"
    /\ g.TokenCode = Code32
    /\ g.Token = Tok64A

\* C18: the Token is empty or exactly 64 characters long in every state, and
\* after a token exchange answered with a body of another length it is
\* empty, not that body.
C18_TokenEmptyOr64 ==
    /\ Len(g.Token) \in {0, 64}
    /\ (TokenArrived /\ Len(TokenAnswer.body) # 64) => g.Token = ""

C18_Witness ==
    /\ TokenArrived
    /\ TokenAnswer.body = Tok65
    /\ g.Token = ""
    /\ hist.lastGood = Tok64A

SignedOver(sig, m) == \E e \in {SecA, SecL, SecN} : sig = Signature(e, m)

IsSignature(sig) == \E m \in ChallengeBodies \cup {"111"} : SignedOver(sig, m)

\* the message of token POST rq embeds challenge code and signature sig
Embeds(rq, code, sig) == rq.body[1] = <<"message", Header \o code \o "\n" \o sig \o "\n">>

\* C20 as claimed: in every token POST the challenge in the envelope is the
\* most recently fetched one and the signature beside it was computed over
\* that same string.
C20_SignatureOverEmbeddedCode ==
    (PostedToken /\ IsSignature(PostedSignature)) =>
        \A i \in TokenPosts :
            /\ Embeds(reqs[i], hist.code, PostedSignature)
            /\ SignedOver(PostedSignature, hist.code)

\* C20 as amended: in every token POST the challenge in the envelope is the
\* challenge fetched most recently on the instance.  In a POST of
\* AuthenticateUser the signature beside it was computed over that same
\* string; GetActiveToken called on its own posts the signature it is given,
\* whatever string that was computed over.
C20_EmbeddedCodeIsLatest ==
    PostedToken =>
        \A i \in TokenPosts :
            /\ Embeds(reqs[i], hist.code, PostedSignature)
            /\ call.op = "AuthenticateUser" =>
                 /\ hist.code = CodeAnswer.body
                 /\ SignedOver(PostedSignature, CodeAnswer.body)
            /\ call.op = "GetActiveToken" => PostedSignature = call.args[1]

C20_Witness ==
    /\ call.op = "GetActiveToken"
    /\ hist.code = Code32
    /\ SignedOver(call.args[1], "111")
    /\ Embeds(reqs[1], Code32, call.args[1])

\* the keyring files of the session's key directory
KeyringFiles == {PubringGpg(g), PubringKbx(g), SecringGpg(g)}

\* C16: when SignToken or decodePrivateKey has returned, every keyring file
\* handle it opened has been closed, on success and on every error path.
C16_HandlesReleased ==
    call.op \in {"SignToken", "decodePrivateKey"} =>
        \A path \in KeyringFiles : Times(Step("open", path)) = Times(Step("close", path))

\* instance i has completed its calls as they complete when run alone
AsAlone(inst) ==
    /\ inst.g = inst.alone.g
    /\ inst.ret = inst.alone.ret
    /\ inst.reqs = inst.alone.reqs

\* C17: under every interleaving of the steps of handshakes and of file
\* operations on two instances, a step of one instance leaves the other
\* instance as it was, and whenever an instance has completed a call, its
\* fields, the result of the call and the requests it sent are those of the
\* same calls run alone.
C17_InstancesIndependent ==
    [][/\ \A i \in DOMAIN servers :
             servers'[i] # servers[i] =>
                 \A j \in DOMAIN servers \ {i} : servers'[j] = servers[j]
       /\ \A i \in DOMAIN servers :
             servers'[i].pc = "idle" => AsAlone(servers'[i])]_vars

C17_Witness ==
    /\ DOMAIN servers = 1..2
    /\ servers[1].pc = "exchange"
    /\ servers[2].pc = "exchange"
    /\ servers[1].g.Token = Tok64A
    /\ servers[2].g.Token = ""
    /\ servers[1].g.TokenCode = Code32
    /\ servers[2].g.TokenCode = Code31

=============================================================================
